---- MODULE Spec2Model ----
(***************************************************************************)
(* Tracking state-transition engine (src/src/services/trackingService.ts)  *)
(* over the trackings table constrained by                                 *)
(* src/database/migrations/001_add_tracking_constraints.sql.               *)
(*                                                                         *)
(* Every db.query is one auto-committed statement: createTracking runs no  *)
(* transaction, so each await is a point where another call may run.  One  *)
(* action of the model is the code between two awaits together with the    *)
(* statement the await issues.                                             *)
(***************************************************************************)
EXTENDS Integers, Sequences, FiniteSets, TLC

\* ------------------------------------------------------------------ bounds
NumProcs == 2        \* createTracking calls that may be in flight together
MaxCalls == 3        \* createTracking calls issued in one behaviour
MaxSerialCalls == 4  \* the same, when one caller issues them one after another
NumPuestos == 3      \* workstations 1..NumPuestos
MaxTime == 2         \* fecha_inicio values 0..MaxTime
MaxOpsCalls == 3     \* createTracking calls in a behaviour that also closes by hand
MaxStatements == 2   \* closeTracking calls and runs of migration 002 in one behaviour
NumOpsPuestos == 2   \* workstations scanned at in such a behaviour
MaxOpsTime == 1      \* fecha_inicio and fechaFinal values 0..MaxOpsTime there
MaxRawCalls == 2     \* createTracking calls with data nobody has validated
MaxLiveCalls == 3    \* createTracking calls in a behaviour where every statement completes
MaxRaceCalls == 5    \* createTracking calls in a behaviour with two races and a retry
NumRacePuestos == 2  \* workstations scanned at in such a behaviour
MaxRaceTime == 0     \* fecha_inicio values 0..MaxRaceTime there

Procs == 1..NumProcs
Puestos == 1..NumPuestos
Times == 0..MaxTime
\* CURRENT_TIMESTAMP as a query may read it; no createTracking decision reads it
Timestamps == 0..(MaxTime + 1)

\* Window identities (lote, instancia, version): two lotes with the same
\* instancia and version, the case of script.js "Critical Issues Identified" 2
Windows ==
  { [lote |-> "A", instancia |-> 1, version |-> 1],
    [lote |-> "B", instancia |-> 1, version |-> 1] }

\* ------------------------------------------------------------------ values
\* fecha_final IS NULL (TrackingRecord.fecha_final: Date | null)
NULL == -1
\* closure_reason IS NULL
NoReason == "NULL"

CHAIN_TRANSITION == "CHAIN_TRANSITION"
RESCANNED_SAME_WINDOW == "RESCANNED_SAME_WINDOW"
MANUAL_CLOSE == "MANUAL_CLOSE"
AUTO_CLOSED_ORPHANED == "AUTO_CLOSED_ORPHANED"
\* closeTracking called without its third argument
Undefined == "undefined"

\* migration 002, in hours: INTERVAL '24 hours' and INTERVAL '1 hour'
OrphanAge == 24
OrphanBuffer == 1

\* How a createTracking call ends.
OK == "OK"                         \* return tracking
ConflictError == "ConflictError"   \* 'Cannot create tracking: Workstation ...'
ConcurrencyConflictError == "ConcurrencyConflictError" \* 'Database constraint violation: ...' (23505)
StorageError == "StorageError"     \* any other db error, rethrown as is
NoResult == "NONE"

\* interface TrackingData (user_id, an audit field no decision reads, is left out)
TrackingData ==
  { [puesto_id |-> p, lote |-> w.lote, instancia |-> w.instancia,
     version |-> w.version, fecha_inicio |-> t] :
      p \in Puestos, w \in Windows, t \in Times }

\* TrackingData as its TypeScript type admits it: nothing in createTracking
\* looks at the shape of lote, instancia, version or puesto_id
RawData ==
  [puesto_id : {0, 1}, lote : {"", "A"}, instancia : {-1, 1},
   version : {-1, 1}, fecha_inicio : 0..MaxOpsTime]

\* the scans of a behaviour long enough for a race, a second race and a retry:
\* lote A at any of the workstations, lote B at the first only
RaceData ==
  { d \in TrackingData :
      /\ d.puesto_id <= NumRacePuestos
      /\ d.fecha_inicio <= MaxRaceTime
      /\ d.lote = "A" \/ d.puesto_id = 1 }

\* the scans of a behaviour that also closes by hand
OpsData ==
  { d \in TrackingData :
      d.puesto_id <= NumOpsPuestos /\ d.fecha_inicio <= MaxOpsTime }

\* the arguments of closeTracking: an id the table may or may not hold, a
\* fechaFinal, a reason or none
CloseIds == 1..(MaxOpsCalls + 1)
CloseTimes == 0..MaxOpsTime
CloseReasons == {Undefined, AUTO_CLOSED_ORPHANED}
\* CURRENT_TIMESTAMP when migration 002 runs: late enough to find an orphan
ReclaimTimes == (OrphanAge + 1)..(OrphanAge + MaxOpsTime + 1)

VARIABLES
  trackings,   \* the table: a sequence of rows, row i has id i
  calls,       \* per process: where its createTracking call is, and what it read
  log,         \* the calls in issue order: input, how it ended, and whether the
               \* target puesto had no open row when the call was issued
  quiet,       \* the table as it was when the current burst of calls began
  burst,       \* calls issued since the last moment no call was in flight and
               \* no statement was run from outside createTracking
  last         \* the last statement run from outside createTracking (a
               \* closeTracking call, a run of migration 002): its number, its
               \* arguments and how it ended

vars == <<trackings, calls, log, quiet, burst, last>>

\* ----------------------------------------------------------- the table
WindowOf(x) == [lote |-> x.lote, instancia |-> x.instancia, version |-> x.version]

IsOpen(row) == row.fecha_final = NULL

\* SameWindow with the lote comparison forgotten
SameWindow_noLote(row, data) ==
  /\ row.instancia = data.instancia
  /\ row.version = data.version

\* createTracking, lines 61-63: the three-field comparison
SameWindow(row, data) ==
  /\ row.lote = data.lote
  /\ row.instancia = data.instancia
  /\ row.version = data.version

\* ORDER BY fecha_inicio ASC LIMIT 1
LatestOf_earliest(store, S) ==
  { i \in S : \A j \in S : store[j].fecha_inicio >= store[i].fecha_inicio }

\* ORDER BY fecha_inicio DESC LIMIT 1 over the rows S: the ids the statement may
\* return (rows with equal fecha_inicio are returned in no defined order)
LatestOf(store, S) ==
  { i \in S : \A j \in S : store[j].fecha_inicio <= store[i].fecha_inicio }

\* OpenInOtherPuesto without "AND puesto_id != $4"
OpenInOtherPuesto_anyPuesto(store, data) ==
  LatestOf(store, { i \in DOMAIN store :
                     /\ store[i].lote = data.lote
                     /\ store[i].instancia = data.instancia
                     /\ store[i].version = data.version
                     /\ store[i].fecha_final = NULL })

\* OpenInOtherPuesto without "lote = $1"
OpenInOtherPuesto_noLote(store, data) ==
  LatestOf(store, { i \in DOMAIN store :
                     /\ store[i].instancia = data.instancia
                     /\ store[i].version = data.version
                     /\ store[i].puesto_id # data.puesto_id
                     /\ store[i].fecha_final = NULL })

\* OpenInOtherPuesto without "AND fecha_final IS NULL"
OpenInOtherPuesto_anyState(store, data) ==
  LatestOf(store, { i \in DOMAIN store :
                     /\ store[i].lote = data.lote
                     /\ store[i].instancia = data.instancia
                     /\ store[i].version = data.version
                     /\ store[i].puesto_id # data.puesto_id })

\* closeTrackingInOtherPuesto's SELECT (lines 165-175)
OpenInOtherPuesto(store, data) ==
  LatestOf(store, { i \in DOMAIN store :
                     /\ store[i].lote = data.lote
                     /\ store[i].instancia = data.instancia
                     /\ store[i].version = data.version
                     /\ store[i].puesto_id # data.puesto_id
                     /\ store[i].fecha_final = NULL })

\* findOpenTrackingInPuesto's SELECT without "AND fecha_final IS NULL"
findOpenTrackingInPuesto_anyState(store, puestoId) ==
  LatestOf(store, { i \in DOMAIN store : store[i].puesto_id = puestoId })

\* findOpenTrackingInPuesto's SELECT (lines 199-206)
findOpenTrackingInPuesto(store, puestoId) ==
  LatestOf(store, { i \in DOMAIN store :
                     /\ store[i].puesto_id = puestoId
                     /\ store[i].fecha_final = NULL })

\* the table without its CHECK
chk_valid_date_range_absent(row) == TRUE

\* CHECK (fecha_final IS NULL OR fecha_inicio <= fecha_final)
chk_valid_date_range(row) ==
  row.fecha_final = NULL \/ row.fecha_inicio <= row.fecha_final

\* the table without its unique index
idx_unique_open_tracking_absent(store) == TRUE

\* the unique index with fecha_inicio among its columns
idx_unique_open_tracking_withInicio(store) ==
  \A i, j \in DOMAIN store :
    ( /\ i # j
      /\ IsOpen(store[i])
      /\ IsOpen(store[j])
      /\ store[i].puesto_id = store[j].puesto_id
      /\ store[i].fecha_inicio = store[j].fecha_inicio )
    => WindowOf(store[i]) # WindowOf(store[j])

\* the unique index without its WHERE fecha_final IS NULL
idx_unique_open_tracking_unfiltered(store) ==
  \A i, j \in DOMAIN store :
    ( /\ i # j
      /\ store[i].puesto_id = store[j].puesto_id )
    => WindowOf(store[i]) # WindowOf(store[j])

\* UNIQUE INDEX (puesto_id, lote, instancia, version) WHERE fecha_final IS NULL
idx_unique_open_tracking(store) ==
  \A i, j \in DOMAIN store :
    ( /\ i # j
      /\ IsOpen(store[i])
      /\ IsOpen(store[j])
      /\ store[i].puesto_id = store[j].puesto_id )
    => WindowOf(store[i]) # WindowOf(store[j])

\* UpdateClosed without "closure_reason = $2"
UpdateClosed_noReason(store, trackingId, fechaFinal, reason) ==
  IF trackingId \in DOMAIN store
    THEN [store EXCEPT ![trackingId].fecha_final = fechaFinal]
    ELSE store

\* UpdateClosed without "WHERE id = $3"
UpdateClosed_all(store, trackingId, fechaFinal, reason) ==
  [i \in DOMAIN store |->
     [store[i] EXCEPT !.fecha_final = fechaFinal, !.closure_reason = reason]]

\* UpdateClosed with "fecha_inicio = $1" among its SET clauses
UpdateClosed_inicioToo(store, trackingId, fechaFinal, reason) ==
  IF trackingId \in DOMAIN store
    THEN [store EXCEPT ![trackingId].fecha_inicio = fechaFinal,
                       ![trackingId].fecha_final = fechaFinal,
                       ![trackingId].closure_reason = reason]
    ELSE store

\* UpdateClosed without "fecha_final = $1"
UpdateClosed_reasonOnly(store, trackingId, fechaFinal, reason) ==
  IF trackingId \in DOMAIN store
    THEN [store EXCEPT ![trackingId].closure_reason = reason]
    ELSE store

\* closeTracking's UPDATE ... WHERE id = $3 (no row with that id: nothing changes)
UpdateClosed(store, trackingId, fechaFinal, reason) ==
  IF trackingId \in DOMAIN store
    THEN [store EXCEPT ![trackingId].fecha_final = fechaFinal,
                       ![trackingId].closure_reason = reason]
    ELSE store

\* an UPDATE nothing refuses
UpdateAccepted_unchecked(store, trackingId, fechaFinal, reason) == TRUE

\* the UPDATE is refused (SQLSTATE 23514) when the new row breaks the CHECK
UpdateAccepted(store, trackingId, fechaFinal, reason) ==
  \A i \in DOMAIN store :
    chk_valid_date_range(UpdateClosed(store, trackingId, fechaFinal, reason)[i])

\* an INSERT that stores the row already closed at its fecha_inicio
InsertOpen_closed(store, data) ==
  Append(store, [id |-> Len(store) + 1,
                 puesto_id |-> data.puesto_id,
                 lote |-> data.lote,
                 instancia |-> data.instancia,
                 version |-> data.version,
                 fecha_inicio |-> data.fecha_inicio,
                 fecha_final |-> data.fecha_inicio,
                 closure_reason |-> NoReason])

\* an INSERT that supplies the id itself instead of leaving it to the sequence
InsertOpen_fixedId(store, data) ==
  Append(store, [id |-> 1,
                 puesto_id |-> data.puesto_id,
                 lote |-> data.lote,
                 instancia |-> data.instancia,
                 version |-> data.version,
                 fecha_inicio |-> data.fecha_inicio,
                 fecha_final |-> NULL,
                 closure_reason |-> NoReason])

\* createTracking's INSERT ... RETURNING *
InsertOpen(store, data) ==
  Append(store, [id |-> Len(store) + 1,
                 puesto_id |-> data.puesto_id,
                 lote |-> data.lote,
                 instancia |-> data.instancia,
                 version |-> data.version,
                 fecha_inicio |-> data.fecha_inicio,
                 fecha_final |-> NULL,
                 closure_reason |-> NoReason])

\* COALESCE(fecha_final, CURRENT_TIMESTAMP)
FinalOrNow(row, ts) == IF row.fecha_final = NULL THEN ts ELSE row.fecha_final

\* findOverlaps with <= and >= for its < and >
findOverlaps_closedRanges(store, ts) ==
  { pr \in (DOMAIN store) \X (DOMAIN store) :
      /\ store[pr[1]].puesto_id = store[pr[2]].puesto_id
      /\ pr[1] < pr[2]
      /\ store[pr[1]].fecha_inicio <= FinalOrNow(store[pr[2]], ts)
      /\ FinalOrNow(store[pr[1]], ts) >= store[pr[2]].fecha_inicio }

\* findOverlaps / detect_overlaps.sql: the pairs (tracking1_id, tracking2_id)
findOverlaps(store, ts) ==
  { pr \in (DOMAIN store) \X (DOMAIN store) :
      /\ store[pr[1]].puesto_id = store[pr[2]].puesto_id
      /\ pr[1] < pr[2]
      /\ store[pr[1]].fecha_inicio < FinalOrNow(store[pr[2]], ts)
      /\ FinalOrNow(store[pr[1]], ts) > store[pr[2]].fecha_inicio }

\* the open rows at a puesto, and of a window
OpenAt(store, puestoId) ==
  { i \in DOMAIN store : store[i].puesto_id = puestoId /\ IsOpen(store[i]) }

OpenOf(store, w) ==
  { i \in DOMAIN store : WindowOf(store[i]) = w /\ IsOpen(store[i]) }

\* reason without its default value: an absent argument is stored as NULL
ReasonOrDefault_none(reason) == IF reason = Undefined THEN NoReason ELSE reason

\* reason: string = 'MANUAL_CLOSE' (line 217)
ReasonOrDefault(reason) == IF reason = Undefined THEN MANUAL_CLOSE ELSE reason

\* migration 002's WHERE without its NOT EXISTS
Orphaned_noNewer(store, ts) ==
  { i \in DOMAIN store :
      /\ store[i].fecha_final = NULL
      /\ store[i].fecha_inicio < ts - OrphanAge }

\* migration 002's WHERE: open, begun more than 24 hours before ts, and no row
\* of the same window begun later
Orphaned(store, ts) ==
  { i \in DOMAIN store :
      /\ store[i].fecha_final = NULL
      /\ store[i].fecha_inicio < ts - OrphanAge
      /\ ~\E j \in DOMAIN store :
            /\ store[j].lote = store[i].lote
            /\ store[j].instancia = store[i].instancia
            /\ store[j].version = store[i].version
            /\ store[j].fecha_inicio > store[i].fecha_inicio }

\* fecha_final = CURRENT_TIMESTAMP
OrphanFinal_now(row, ts) == ts

\* GREATEST(fecha_inicio + INTERVAL '24 hours', CURRENT_TIMESTAMP - INTERVAL '1 hour')
OrphanFinal(row, ts) ==
  IF row.fecha_inicio + OrphanAge >= ts - OrphanBuffer
    THEN row.fecha_inicio + OrphanAge
    ELSE ts - OrphanBuffer

\* migration 002's UPDATE, run at ts
UpdateOrphaned(store, ts) ==
  [i \in DOMAIN store |->
     IF i \in Orphaned(store, ts)
       THEN [store[i] EXCEPT !.fecha_final = OrphanFinal(store[i], ts),
                             !.closure_reason = AUTO_CLOSED_ORPHANED]
       ELSE store[i]]

\* getTracking's SELECT without its WHERE
SelectById_any(store, trackingId) == store

\* SELECT * FROM trackings WHERE id = $1 (lines 240-242): result.rows
SelectById(store, trackingId) ==
  SelectSeq(store, LAMBDA row : row.id = trackingId)

\* null, and a row, as getTracking returns them: the empty sequence, and the
\* sequence of that one row
NullRow == << >>

\* result.rows.length > 0 ? result.rows[0] : null (line 244)
FirstOrNull(rows) == IF Len(rows) > 0 THEN <<rows[1]>> ELSE NullRow

\* ----------------------------------------------------------- the calls
\* closes counts the UPDATEs of the call that went through, reads the SELECTs
\* it has issued, writes the UPDATEs and INSERTs it has issued
IdleCall ==
  [pc |-> "idle", slot |-> 0, found |-> 0, raced |-> FALSE, closes |-> 0,
   reads |-> 0, writes |-> 0]

NoStatement == [op |-> "none", n |-> 0]

InFlight(p) == calls[p].pc \notin {"idle", "done"}
Data(p) == log[calls[p].slot].data
Result(p) == log[calls[p].slot].result

Init ==
  /\ trackings = << >>
  /\ calls = [p \in Procs |-> IdleCall]
  /\ log = << >>
  /\ quiet = << >>
  /\ burst = 0
  /\ last = NoStatement

\* the statement p's call issues where it stands: a SELECT, or an UPDATE or INSERT
Reading(p) == IF calls[p].pc \in {"chain_select", "same_select"} THEN 1 ELSE 0
Writing(p) == IF calls[p].pc \in {"chain_close", "same_close", "insert"} THEN 1 ELSE 0

\* a call returns or throws: res is what the caller gets, ret the returned row's id
Finish(p, res, ret) ==
  /\ calls' = [calls EXCEPT ![p].pc = "done", ![p].found = 0,
                            ![p].reads = @ + Reading(p),
                            ![p].writes = @ + Writing(p)]
  /\ log' = [log EXCEPT ![calls[p].slot].result = res,
                        ![calls[p].slot].returned = ret]

\* the throw of lines 75-94 under a catch that wraps whatever it catches in the
\* 'Database constraint violation' error
Reject_asConstraintViolation(p, openInSamePuesto) ==
  /\ calls' = [calls EXCEPT ![p].pc = "done", ![p].found = openInSamePuesto,
                            ![p].reads = @ + Reading(p)]
  /\ log' = [log EXCEPT ![calls[p].slot].result = ConcurrencyConflictError]

\* the throw of lines 75-94: the error names the window and the fecha_inicio of
\* openInSamePuesto, which found keeps
Reject(p, openInSamePuesto) ==
  /\ calls' = [calls EXCEPT ![p].pc = "done", ![p].found = openInSamePuesto,
                            ![p].reads = @ + Reading(p)]
  /\ log' = [log EXCEPT ![calls[p].slot].result = ConflictError]

\* createTracking(data) is called (lines 38-51), data drawn from inputs
BeginWith(p, limit, inputs) ==
  /\ ~InFlight(p)
  /\ Len(log) < limit
  /\ \E d \in inputs :
       log' = Append(log, [data |-> d, result |-> NoResult, returned |-> 0,
                           free |-> OpenAt(trackings, d.puesto_id) = {}])
  /\ calls' = [calls EXCEPT ![p] =
                 [pc |-> "chain_select", slot |-> Len(log) + 1,
                  found |-> 0, raced |-> FALSE, closes |-> 0,
                  reads |-> 0, writes |-> 0]]
  /\ IF \A q \in Procs : ~InFlight(q)
       THEN quiet' = trackings /\ burst' = 1
       ELSE quiet' = quiet /\ burst' = burst + 1
  /\ UNCHANGED <<trackings, last>>

\* createTracking(data) is called with a well-formed data
Begin(p, limit) == BeginWith(p, limit, TrackingData)

\* Step 1, closeTrackingInOtherPuesto: the SELECT and the branch on its result
ChainSelect(p) ==
  /\ calls[p].pc = "chain_select"
  /\ LET rows == OpenInOtherPuesto(trackings, Data(p)) IN
       IF rows = {}
         THEN calls' = [calls EXCEPT ![p].pc = "same_select",
                                     ![p].reads = @ + Reading(p)]
         ELSE \E previousTracking \in rows :
                calls' = [calls EXCEPT ![p].pc = "chain_close",
                                       ![p].found = previousTracking,
                                       ![p].reads = @ + Reading(p)]
  /\ UNCHANGED <<trackings, log, quiet, burst, last>>

\* Step 1 with one UPDATE that closes every open row of the window at another
\* puesto, not the row of the SELECT's LIMIT 1 alone
ChainClose_allElsewhere(p) ==
  /\ calls[p].pc = "chain_close"
  /\ LET closed == [i \in DOMAIN trackings |->
                      IF /\ SameWindow(trackings[i], Data(p))
                         /\ trackings[i].puesto_id # Data(p).puesto_id
                         /\ IsOpen(trackings[i])
                        THEN [trackings[i] EXCEPT
                                !.fecha_final = Data(p).fecha_inicio,
                                !.closure_reason = CHAIN_TRANSITION]
                        ELSE trackings[i]]
     IN IF \A i \in DOMAIN trackings : chk_valid_date_range(closed[i])
          THEN /\ trackings' = closed
               /\ calls' = [calls EXCEPT ![p].pc = "same_select", ![p].found = 0,
                                      ![p].closes = @ + 1,
                                      ![p].writes = @ + Writing(p)]
               /\ UNCHANGED log
          ELSE /\ Finish(p, StorageError, 0)
               /\ UNCHANGED trackings
  /\ UNCHANGED <<quiet, burst, last>>

\* Step 1, closeTracking(previousTracking.id, data.fecha_inicio, 'CHAIN_TRANSITION');
\* a refused UPDATE throws into createTracking's catch, which rethrows it
ChainClose(p) ==
  /\ calls[p].pc = "chain_close"
  /\ IF UpdateAccepted(trackings, calls[p].found, Data(p).fecha_inicio, CHAIN_TRANSITION)
       THEN /\ trackings' = UpdateClosed(trackings, calls[p].found,
                                         Data(p).fecha_inicio, CHAIN_TRANSITION)
            /\ calls' = [calls EXCEPT ![p].pc = "same_select", ![p].found = 0,
                                   ![p].closes = @ + 1,
                                   ![p].writes = @ + Writing(p)]
            /\ UNCHANGED log
       ELSE /\ Finish(p, StorageError, 0)
            /\ UNCHANGED trackings
  /\ UNCHANGED <<quiet, burst, last>>

\* p reaches the INSERT: it has raced q when q stands before its own INSERT at
\* the same puesto
EnterInsert(p) ==
  [q \in Procs |->
     IF q = p
       THEN [calls[p] EXCEPT
               !.pc = "insert", !.found = 0,
               !.reads = @ + Reading(p), !.writes = @ + Writing(p),
               !.raced = \E r \in Procs \ {p} :
                           /\ calls[r].pc = "insert"
                           /\ Data(r).puesto_id = Data(p).puesto_id]
       ELSE IF calls[q].pc = "insert" /\ Data(q).puesto_id = Data(p).puesto_id
              THEN [calls[q] EXCEPT !.raced = TRUE]
              ELSE calls[q]]

\* Step 2, findOpenTrackingInPuesto and the branch on its result (lines 57-96)
SameSelect(p) ==
  /\ calls[p].pc = "same_select"
  /\ LET rows == findOpenTrackingInPuesto(trackings, Data(p).puesto_id) IN
       IF rows = {}
         THEN calls' = EnterInsert(p) /\ UNCHANGED log
         ELSE \E openInSamePuesto \in rows :
                IF SameWindow(trackings[openInSamePuesto], Data(p))
                  THEN /\ calls' = [calls EXCEPT ![p].pc = "same_close",
                                                 ![p].found = openInSamePuesto,
                                                 ![p].reads = @ + Reading(p)]
                       /\ UNCHANGED log
                  ELSE Reject(p, openInSamePuesto)
  /\ UNCHANGED <<trackings, quiet, burst, last>>

\* Step 2's rescan branch without its closeTracking call
SameClose_noUpdate(p) ==
  /\ calls[p].pc = "same_close"
  /\ calls' = EnterInsert(p)
  /\ UNCHANGED <<trackings, log, quiet, burst, last>>

\* Step 2, closeTracking(openInSamePuesto.id, data.fecha_inicio, 'RESCANNED_SAME_WINDOW')
SameClose(p) ==
  /\ calls[p].pc = "same_close"
  /\ IF UpdateAccepted(trackings, calls[p].found, Data(p).fecha_inicio, RESCANNED_SAME_WINDOW)
       THEN /\ trackings' = UpdateClosed(trackings, calls[p].found,
                                         Data(p).fecha_inicio, RESCANNED_SAME_WINDOW)
            /\ calls' = [EnterInsert(p) EXCEPT ![p].closes = @ + 1]
            /\ UNCHANGED log
       ELSE /\ Finish(p, StorageError, 0)
            /\ UNCHANGED trackings
  /\ UNCHANGED <<quiet, burst, last>>

\* Step 3 with a catch that has no branch for SQLSTATE 23505: the driver's
\* error is rethrown as it came
Insert_rethrow(p) ==
  /\ calls[p].pc = "insert"
  /\ IF idx_unique_open_tracking(InsertOpen(trackings, Data(p)))
       THEN /\ trackings' = InsertOpen(trackings, Data(p))
            /\ Finish(p, OK, Len(trackings) + 1)
       ELSE /\ Finish(p, StorageError, 0)
            /\ UNCHANGED trackings
  /\ UNCHANGED <<quiet, burst, last>>

\* Step 3, the INSERT (lines 99-126) and the catch of SQLSTATE 23505 (128-145)
Insert(p) ==
  /\ calls[p].pc = "insert"
  /\ IF idx_unique_open_tracking(InsertOpen(trackings, Data(p)))
       THEN /\ trackings' = InsertOpen(trackings, Data(p))
            /\ Finish(p, OK, Len(trackings) + 1)
       ELSE /\ Finish(p, ConcurrencyConflictError, 0)
            /\ UNCHANGED trackings
  /\ UNCHANGED <<quiet, burst, last>>

\* a call that goes on only while no other call is in flight
Step_serialised(p) ==
  /\ \A q \in Procs \ {p} : ~InFlight(q)
  /\ \/ ChainSelect(p)
     \/ ChainClose(p)
     \/ SameSelect(p)
     \/ SameClose(p)
     \/ Insert(p)

\* the statement p's call awaits completes and the call goes on to its next await
Step(p) ==
  \/ ChainSelect(p)
  \/ ChainClose(p)
  \/ SameSelect(p)
  \/ SameClose(p)
  \/ Insert(p)

\* closeTracking(trackingId, fechaFinal, reason) called from outside
\* createTracking (lines 214-234), between two createTracking calls: one UPDATE,
\* refused as a whole when the CHECK fails, and nothing else
closeTracking(trackingId, fechaFinal, reason) ==
  /\ \A q \in Procs : ~InFlight(q)
  /\ last.n < MaxStatements
  /\ LET r == ReasonOrDefault(reason)
         accepted == UpdateAccepted(trackings, trackingId, fechaFinal, r)
     IN /\ trackings' = IF accepted
                          THEN UpdateClosed(trackings, trackingId, fechaFinal, r)
                          ELSE trackings
        /\ last' = [op |-> "closeTracking", n |-> last.n + 1,
                    id |-> trackingId, fechaFinal |-> fechaFinal,
                    reason |-> reason,
                    result |-> IF accepted THEN OK ELSE StorageError]
  /\ burst' = 0
  /\ UNCHANGED <<calls, log, quiet>>

\* getTracking(trackingId) (lines 239-245), between two createTracking calls
getTracking(trackingId) ==
  /\ \A q \in Procs : ~InFlight(q)
  /\ last.n < MaxStatements
  /\ last' = [op |-> "getTracking", n |-> last.n + 1, id |-> trackingId,
              row |-> FirstOrNull(SelectById(trackings, trackingId)),
              result |-> OK]
  /\ burst' = 0
  /\ UNCHANGED <<trackings, calls, log, quiet>>

\* findOverlaps() (lines 250-288) run at CURRENT_TIMESTAMP = ts, between two
\* createTracking calls
findOverlapsCall(ts) ==
  /\ \A q \in Procs : ~InFlight(q)
  /\ last.n < MaxStatements
  /\ last' = [op |-> "findOverlaps", n |-> last.n + 1, ts |-> ts,
              pairs |-> findOverlaps(trackings, ts),
              result |-> OK]
  /\ burst' = 0
  /\ UNCHANGED <<trackings, calls, log, quiet>>

\* migration 002 step 2 run at CURRENT_TIMESTAMP = ts, between two calls
close_orphaned_trackings(ts) ==
  /\ \A q \in Procs : ~InFlight(q)
  /\ last.n < MaxStatements
  /\ LET accepted == \A i \in DOMAIN trackings :
                        chk_valid_date_range(UpdateOrphaned(trackings, ts)[i])
     IN /\ trackings' = IF accepted THEN UpdateOrphaned(trackings, ts)
                                    ELSE trackings
        /\ last' = [op |-> "close_orphaned_trackings", n |-> last.n + 1,
                    ts |-> ts,
                    result |-> IF accepted THEN OK ELSE StorageError]
  /\ burst' = 0
  /\ UNCHANGED <<calls, log, quiet>>

\* calls from independent producers, interleaved at every await
Next ==
  \/ \E p \in Procs : Begin(p, MaxCalls)
  \/ \E p \in Procs : Step(p)

Spec == Init /\ [][Next]_vars

\* one caller that awaits each call before issuing the next
SerialNext ==
  \/ Begin(1, MaxSerialCalls)
  \/ Step(1)

SerialSpec == Init /\ [][SerialNext]_vars

\* one caller of createTracking, and between its calls closeTracking calls and
\* runs of migration 002
OpsNext ==
  \/ BeginWith(1, MaxOpsCalls, OpsData)
  \/ Step(1)
  \/ \E id \in CloseIds, t \in CloseTimes, reason \in CloseReasons :
       closeTracking(id, t, reason)
  \/ \E ts \in ReclaimTimes : close_orphaned_trackings(ts)
  \/ \E id \in CloseIds : getTracking(id)
  \/ \E ts \in Timestamps : findOverlapsCall(ts)

OpsSpec == Init /\ [][OpsNext]_vars

\* calls from independent producers, more of them over fewer data
RaceNext ==
  \/ \E p \in Procs : BeginWith(p, MaxRaceCalls, RaceData)
  \/ \E p \in Procs : Step(p)

RaceSpec == Init /\ [][RaceNext]_vars

\* calls from independent producers; every statement a call awaits completes
LiveNext ==
  \/ \E p \in Procs : BeginWith(p, MaxLiveCalls, OpsData)
  \/ \E p \in Procs : Step(p)

LiveSpec ==
  /\ Init
  /\ [][LiveNext]_vars
  /\ \A p \in Procs : WF_vars(Step(p))

\* one caller of createTracking whose data nobody has validated
RawNext ==
  \/ BeginWith(1, MaxRawCalls, RawData)
  \/ Step(1)

RawSpec == Init /\ [][RawNext]_vars

\* ------------------------------------------------------------ the claims
Quiescent == \A p \in Procs : ~InFlight(p)

\* p's call has ended and was the only call in flight from its first step to
\* its last: quiet is then the table as the call found it
Alone(p) ==
  /\ calls[p].pc = "done"
  /\ calls[p].slot = Len(log)
  /\ burst = 1

\* C1, I1 (exclusivity): in every reachable state, every workstation has at
\* most one interval with fecha_final = NULL, also when concurrent calls carry
\* different window identities.
C1_Exclusivity ==
  \A puestoId \in Puestos : Cardinality(OpenAt(trackings, puestoId)) <= 1

\* C2, I2 (single location): in every reachable state, every window identity
\* has at most one interval with fecha_final = NULL.
C2_SingleLocation ==
  \A w \in Windows : Cardinality(OpenOf(trackings, w)) <= 1

\* C3, I5 (no stored overlap): whatever the fecha_inicio values of the calls,
\* findOverlaps returns no pair, at whatever time it is run.
C3_NoStoredOverlap ==
  \A ts \in Timestamps : findOverlaps(trackings, ts) = {}

\* C4: when the two calls of a burst target the same workstation and both
\* stand before their INSERT before either has inserted, exactly one INSERT
\* succeeds and the other call fails with ConcurrencyConflictError, whatever
\* the two window identities are.
C4_ExactlyOneInsertSucceeds ==
  \A p, q \in Procs :
    ( /\ p # q
      /\ burst = 2
      /\ calls[p].pc = "done" /\ calls[q].pc = "done"
      /\ calls[p].raced /\ calls[q].raced
      /\ Data(p).puesto_id = Data(q).puesto_id )
    => {Result(p), Result(q)} = {OK, ConcurrencyConflictError}

\* The last two calls issued are the whole burst, carry the same (window,
\* workstation, fecha_inicio), both have ended, and the workstation had no open
\* row when the burst began.  (A call reads nothing when it is issued, so the
\* second being issued during the first's last statement is the serial order.)
SameScanTwice ==
  /\ burst = 2
  /\ Quiescent
  /\ log[Len(log) - 1].data = log[Len(log)].data
  /\ OpenAt(quiet, log[Len(log)].data.puesto_id) = {}

TwinResults == { log[Len(log) - 1].result, log[Len(log)].result }

\* the window of the twin scans has no open row elsewhere that starts after
\* their fecha_inicio (the chain close would be refused by the table's CHECK)
TwinChainClosable ==
  \A i \in OpenOf(quiet, WindowOf(log[Len(log)].data)) :
    quiet[i].fecha_inicio <= log[Len(log)].data.fecha_inicio

TwinRaced ==
  \E p \in Procs : calls[p].slot = Len(log) /\ calls[p].raced

Rejected(p) == Alone(p) /\ Result(p) = ConflictError

\* C6: a call rejected with ConflictError mutates nothing: the table after it
\* is the table before it, also when the call's window had an open interval at
\* another workstation.
C6_RejectLeavesStoreUnchanged ==
  \A p \in Procs : Rejected(p) => trackings = quiet

\* The table as p's call found it has exactly one open row, a, at the call's
\* workstation, and a is of another window than the call's.
OccupiedByOther(p, a) ==
  /\ Alone(p)
  /\ OpenAt(quiet, Data(p).puesto_id) = {a}
  /\ WindowOf(quiet[a]) # WindowOf(Data(p))

\* the call's window has no open row that starts after the call's fecha_inicio
ChainClosable(p) ==
  \A i \in OpenOf(quiet, WindowOf(Data(p))) :
    quiet[i].fecha_inicio <= Data(p).fecha_inicio

\* C7 as stated: when window A is open at workstation P, a scan of any other
\* window B at P fails with ConflictError, creates no interval and leaves A's
\* interval open and unmodified.
C7_ConflictRejected ==
  \A p \in Procs : \A a \in DOMAIN quiet :
    OccupiedByOther(p, a) =>
      /\ Result(p) = ConflictError
      /\ Len(trackings) = Len(quiet)
      /\ trackings[a] = quiet[a]

\* C7 as amended: the scan of B fails, creates no interval and leaves A's
\* interval open and unmodified; it fails with ConflictError unless B has an
\* open interval at another workstation that starts after the scan's
\* fecha_inicio, and then it fails with the storage error of the refused chain
\* close.
C7_ConflictOrRefusedClose ==
  \A p \in Procs : \A a \in DOMAIN quiet :
    OccupiedByOther(p, a) =>
      /\ Result(p) = IF ChainClosable(p) THEN ConflictError ELSE StorageError
      /\ Len(trackings) = Len(quiet)
      /\ trackings[a] = quiet[a]

\* C7 witness: a scan at an occupied workstation was rejected with ConflictError
C7_Witness ==
  \E p \in Procs : \E a \in DOMAIN quiet :
    OccupiedByOther(p, a) /\ ChainClosable(p) /\ Result(p) = ConflictError

\* row r as closeTracking(r.id, fechaFinal, reason) leaves it
ClosedAs(row, fechaFinal, reason) ==
  [row EXCEPT !.fecha_final = fechaFinal, !.closure_reason = reason]

\* the row a successful createTracking(data) stores as row number id
OpenedBy(data, id) ==
  [id |-> id, puesto_id |-> data.puesto_id, lote |-> data.lote,
   instancia |-> data.instancia, version |-> data.version,
   fecha_inicio |-> data.fecha_inicio, fecha_final |-> NULL,
   closure_reason |-> NoReason]

\* The table as p's call found it: the call's window is open in row r at
\* another workstation since before the call's fecha_inicio, and the call's
\* workstation has no open row.
ChainCase(p, r) ==
  /\ Alone(p)
  /\ r \in OpenOf(quiet, WindowOf(Data(p)))
  /\ quiet[r].puesto_id # Data(p).puesto_id
  /\ OpenAt(quiet, Data(p).puesto_id) = {}
  /\ Data(p).fecha_inicio > quiet[r].fecha_inicio

\* C8, chain property: scanning W at P1 (t0) and then, serially, at a free
\* P2 # P1 with t1 > t0 leaves the P1 interval closed with fecha_final = t1 and
\* CHAIN_TRANSITION, and a new interval open at P2 from t1.
C8_ChainTransition ==
  \A p \in Procs : \A r \in DOMAIN quiet :
    ChainCase(p, r) =>
      /\ Result(p) = OK
      /\ trackings[r] = ClosedAs(quiet[r], Data(p).fecha_inicio, CHAIN_TRANSITION)
      /\ Len(trackings) = Len(quiet) + 1
      /\ trackings[Len(trackings)] = OpenedBy(Data(p), Len(trackings))

\* C8 witness: a chain transition has run on a table of two rows or more
C8_Witness ==
  \E p \in Procs : \E r \in DOMAIN quiet :
    ChainCase(p, r) /\ Result(p) = OK /\ Len(quiet) >= 2

\* The table as p's call found it: the call's window is open in row r at the
\* call's own workstation since before the call's fecha_inicio.
RescanCase(p, r) ==
  /\ Alone(p)
  /\ r \in OpenOf(quiet, WindowOf(Data(p)))
  /\ quiet[r].puesto_id = Data(p).puesto_id
  /\ Data(p).fecha_inicio > quiet[r].fecha_inicio

\* C9, rescan property: scanning W at P (t0) and then, serially, at P again
\* with t1 > t0 succeeds, leaves the first interval closed with fecha_final = t1
\* and RESCANNED_SAME_WINDOW, and a second, distinct interval open at P from t1.
C9_Rescan ==
  \A p \in Procs : \A r \in DOMAIN quiet :
    RescanCase(p, r) =>
      /\ Result(p) = OK
      /\ trackings[r] = ClosedAs(quiet[r], Data(p).fecha_inicio, RESCANNED_SAME_WINDOW)
      /\ Len(trackings) = Len(quiet) + 1
      /\ log[calls[p].slot].returned = Len(trackings)
      /\ log[calls[p].slot].returned # r
      /\ trackings[Len(trackings)] = OpenedBy(Data(p), Len(trackings))

\* C9 witness: a rescan has run on a table of two rows or more
C9_Witness ==
  \E p \in Procs : \E r \in DOMAIN quiet :
    RescanCase(p, r) /\ Result(p) = OK /\ Len(quiet) >= 2

\* the calls that scanned window w, in issue order, and w's rows, in id order
CallsOf(w) == SelectSeq(log, LAMBDA e : WindowOf(e.data) = w)
RowsOf(w) == SelectSeq(trackings, LAMBDA row : WindowOf(row) = w)

\* w was scanned at pairwise distinct workstations, each free when scanned,
\* with strictly increasing fecha_inicio
MultiHop(w) ==
  LET cs == CallsOf(w) IN
    /\ Quiescent
    /\ cs # << >>
    /\ \A i \in 1..Len(cs) : cs[i].free
    /\ \A i, j \in 1..Len(cs) :
         i < j => /\ cs[i].data.puesto_id # cs[j].data.puesto_id
                  /\ cs[i].data.fecha_inicio < cs[j].data.fecha_inicio

\* C10, multi-hop chain: serial scans moving one window through n distinct free
\* workstations at t1 < ... < tn all succeed and yield exactly n intervals of
\* that window, the i-th at the i-th workstation from ti, closed at t(i+1) with
\* CHAIN_TRANSITION for i < n and the n-th open; findOverlaps reports no pair
\* of that window's intervals.
C10_MultiHopChain ==
  \A w \in Windows :
    MultiHop(w) =>
      LET cs == CallsOf(w)
          rs == RowsOf(w)
          n == Len(cs)
      IN /\ Len(rs) = n
         /\ \A i \in 1..n :
              /\ cs[i].result = OK
              /\ rs[i].id = cs[i].returned
              /\ rs[i].puesto_id = cs[i].data.puesto_id
              /\ rs[i].fecha_inicio = cs[i].data.fecha_inicio
              /\ i < n => /\ rs[i].fecha_final = cs[i + 1].data.fecha_inicio
                           /\ rs[i].closure_reason = CHAIN_TRANSITION
              /\ i = n => /\ rs[i].fecha_final = NULL
                           /\ rs[i].closure_reason = NoReason
         /\ \A ts \in Timestamps : \A pr \in findOverlaps(trackings, ts) :
              ~( WindowOf(trackings[pr[1]]) = w /\ WindowOf(trackings[pr[2]]) = w )

\* C10 witness: a window has gone through three workstations, another window
\* having been scanned in between
C10_Witness ==
  \E w \in Windows :
    /\ MultiHop(w)
    /\ Len(CallsOf(w)) = 3
    /\ Len(log) = 4

\* The table as p's call found it: a chain case (the window open in row r at
\* another workstation) in which the window has an earlier, closed row e at the
\* call's own workstation.
BackMoveCase(p, r, e) ==
  /\ ChainCase(p, r)
  /\ e \in DOMAIN quiet
  /\ WindowOf(quiet[e]) = WindowOf(Data(p))
  /\ quiet[e].puesto_id = Data(p).puesto_id
  /\ ~IsOpen(quiet[e])

\* C11, backward move: after W went serially from P1 to P2, scanning W at P1
\* again with a later t succeeds, closes the P2 interval with CHAIN_TRANSITION
\* at fecha_final = t, opens a new interval at P1 that is not W's earlier P1
\* interval, and leaves that earlier interval as it was.
C11_BackwardMove ==
  \A p \in Procs : \A r, e \in DOMAIN quiet :
    BackMoveCase(p, r, e) =>
      /\ Result(p) = OK
      /\ trackings[r] = ClosedAs(quiet[r], Data(p).fecha_inicio, CHAIN_TRANSITION)
      /\ Len(trackings) = Len(quiet) + 1
      /\ log[calls[p].slot].returned = Len(trackings)
      /\ log[calls[p].slot].returned # e
      /\ trackings[Len(trackings)] = OpenedBy(Data(p), Len(trackings))
      /\ trackings[e] = quiet[e]

\* C11 witness: a window has come back to a workstation it had left
C11_Witness ==
  \E p \in Procs : \E r, e \in DOMAIN quiet :
    /\ BackMoveCase(p, r, e)
    /\ Result(p) = OK
    /\ quiet[e].closure_reason = CHAIN_TRANSITION

\* C12, at most one close per call: no call runs both the CHAIN_TRANSITION
\* UPDATE of step 1 and the RESCANNED_SAME_WINDOW UPDATE of step 2.
C12_AtMostOneClose ==
  \A p \in Procs : calls[p].closes <= 1

\* C13, the returned interval: in a serial execution every successful
\* createTracking(W, P, t) returns the row it has just inserted, and at the
\* moment it returns that row is stored with puesto P, window W,
\* fecha_inicio = t, fecha_final NULL and closure_reason NULL.
C13_ReturnsCreated ==
  \A p \in Procs :
    (Alone(p) /\ Result(p) = OK) =>
      LET id == log[calls[p].slot].returned IN
        /\ id = Len(quiet) + 1
        /\ Len(trackings) = Len(quiet) + 1
        /\ trackings[id] = OpenedBy(Data(p), id)

\* C13 witness: a call has succeeded after closing an interval, on a table
\* that already held two rows
C13_Witness ==
  \E p \in Procs :
    /\ Alone(p)
    /\ Result(p) = OK
    /\ calls[p].closes = 1
    /\ Len(quiet) >= 2

\* p's call is at its INSERT and the row it would insert breaks the unique
\* index on the table as it stands
InsertCollides(p) ==
  /\ calls[p].pc = "insert"
  /\ ~idx_unique_open_tracking(InsertOpen(trackings, Data(p)))

\* C14, lost race: whenever a call's INSERT breaks the unique index, the call
\* ends with the concurrency-conflict error (neither the workstation-conflict
\* error nor success) and the step adds no row to the table.
C14_UniqueViolationFailsCleanly ==
  [][ \A p \in Procs :
        (InsertCollides(p) /\ calls'[p].pc = "done") =>
          /\ log'[calls[p].slot].result = ConcurrencyConflictError
          /\ ConcurrencyConflictError \notin {OK, ConflictError}
          /\ log'[calls[p].slot].returned = 0
          /\ trackings' = trackings ]_vars

\* C14 witness: a call has ended with the concurrency-conflict error
C14_Witness ==
  \E p \in Procs :
    /\ calls[p].pc = "done"
    /\ calls[p].raced
    /\ Result(p) = ConcurrencyConflictError

\* C17, closed intervals are immutable: no step changes the fecha_final or the
\* closure_reason of a row whose fecha_final is already set.
C17_ClosedImmutable ==
  [][ \A i \in DOMAIN trackings :
        ~IsOpen(trackings[i]) =>
          /\ trackings'[i].fecha_final = trackings[i].fecha_final
          /\ trackings'[i].closure_reason = trackings[i].closure_reason ]_vars

\* C19, I3: every row whose fecha_final is set has fecha_inicio <= fecha_final,
\* whatever createTracking and closeTracking calls have run with whatever
\* timestamps: a close that would break it is refused by the CHECK.
C19_ValidDateRange ==
  \A i \in DOMAIN trackings :
    ~IsOpen(trackings[i]) => trackings[i].fecha_inicio <= trackings[i].fecha_final

\* C19 witness: a closeTracking call with a fechaFinal before the row's
\* fecha_inicio has been refused, on a table that holds a closed row
C19_Witness ==
  /\ last.op = "closeTracking"
  /\ last.result = StorageError
  /\ last.id \in DOMAIN trackings
  /\ last.fechaFinal < trackings[last.id].fecha_inicio
  /\ \E i \in DOMAIN trackings : ~IsOpen(trackings[i])

\* C20, I4: a row's fecha_final is set exactly when its closure_reason is set,
\* whatever closes createTracking has made, whatever closeTracking calls have
\* run (with a reason or with the default one) and whatever migration 002 has
\* reclaimed.
C20_ReasonIffClosed ==
  \A i \in DOMAIN trackings :
    ~IsOpen(trackings[i]) <=> trackings[i].closure_reason # NoReason

\* C20 witness: migration 002 has just reclaimed a row, on a table that holds a
\* row closed by closeTracking's default reason and a row closed by
\* createTracking
C20_Witness ==
  /\ last.op = "close_orphaned_trackings"
  /\ \E i, j, k \in DOMAIN trackings :
       /\ trackings[i].closure_reason = AUTO_CLOSED_ORPHANED
       /\ trackings[j].closure_reason = MANUAL_CLOSE
       /\ trackings[k].closure_reason \in {CHAIN_TRANSITION, RESCANNED_SAME_WINDOW}

\* outcomes the code has no way to produce
NotFoundError == "NotFoundError"
ValidationError == "ValidationError"

\* C16, closing an unknown id: a closeTracking call whose trackingId no row of
\* the table has fails with the not-found error and leaves the table unchanged.
C16_CloseUnknownIdFails ==
  [][ ( /\ last'.n # last.n
        /\ last'.op = "closeTracking"
        /\ last'.id \notin DOMAIN trackings )
      => ( /\ last'.result = NotFoundError
           /\ trackings' = trackings ) ]_vars

\* the data names no window or no workstation: an empty lote, a negative
\* instancia or version, a puesto_id that is not positive
Malformed(data) ==
  \/ data.lote = ""
  \/ data.instancia < 0
  \/ data.version < 0
  \/ data.puesto_id <= 0

\* C18, malformed input: a createTracking call with malformed data fails with
\* the validation error before it reads or writes the table, which stays as
\* it was.
C18_MalformedRejected ==
  \A p \in Procs :
    (Alone(p) /\ Malformed(Data(p))) =>
      /\ Result(p) = ValidationError
      /\ trackings = quiet

\* p's call has run alone, with the data of call k, the call issued right
\* before it, which lost a race
RetryOf(p, k) ==
  /\ Alone(p)
  /\ k = calls[p].slot - 1
  /\ k \in DOMAIN log
  /\ log[k].data = Data(p)
  /\ log[k].result = ConcurrencyConflictError

\* C15, retry after a lost race: a call that failed with the
\* concurrency-conflict error and is run again once no other call is in flight
\* does not fail with that error again and leaves exactly one open interval
\* at its workstation.
C15_RetrySafe ==
  \A p \in Procs : \A k \in DOMAIN log :
    RetryOf(p, k) =>
      /\ Result(p) # ConcurrencyConflictError
      /\ Cardinality(OpenAt(trackings, Data(p).puesto_id)) = 1

\* C21, one open interval per workstation and window: in every state, whatever
\* the interleaving of createTracking calls, no two rows with fecha_final NULL
\* have the same puesto_id, lote, instancia and version.
C21_OneOpenPerPuestoWindow ==
  \A i, j \in DOMAIN trackings :
    ( /\ trackings[i].fecha_final = NULL
      /\ trackings[j].fecha_final = NULL
      /\ trackings[i].puesto_id = trackings[j].puesto_id
      /\ trackings[i].lote = trackings[j].lote
      /\ trackings[i].instancia = trackings[j].instancia
      /\ trackings[i].version = trackings[j].version )
    => i = j

\* C21 witness: two calls for one window at one workstation, with different
\* fecha_inicio, have raced to the INSERT and both have ended
C21_Witness ==
  \E p, q \in Procs :
    /\ p # q
    /\ calls[p].pc = "done" /\ calls[q].pc = "done"
    /\ calls[p].raced /\ calls[q].raced
    /\ WindowOf(Data(p)) = WindowOf(Data(q))
    /\ Data(p).puesto_id = Data(q).puesto_id
    /\ Data(p).fecha_inicio # Data(q).fecha_inicio
    /\ Cardinality(OpenAt(trackings, Data(p).puesto_id)) = 1

\* C22, bounded round trips: in every state, concurrent ones included, a call
\* has issued at most 2 SELECTs and at most 2 writes (one close and the INSERT).
C22_TwoReadsTwoWrites ==
  \A p \in Procs : calls[p].reads <= 2 /\ calls[p].writes <= 2

\* The table as p's call found it: row r is the open row of the call's window,
\* at another workstation (the row step 1 closes) or at the call's own (the row
\* step 2 closes), and it began after the call's fecha_inicio.
EarlyCase(p, r) ==
  /\ Alone(p)
  /\ r \in OpenOf(quiet, WindowOf(Data(p)))
  /\ Data(p).fecha_inicio < quiet[r].fecha_inicio

\* C23, a scan dated before the interval it would close: createTracking(W, P, t)
\* with t earlier than the fecha_inicio of the open interval of W that it would
\* close, by chain or by rescan, ends in an error, creates no row and leaves
\* that interval open and as it was.
C23_EarlyScanRefused ==
  \A p \in Procs : \A r \in DOMAIN quiet :
    EarlyCase(p, r) =>
      /\ Result(p) \in {StorageError, ConflictError, ConcurrencyConflictError}
      /\ Len(trackings) = Len(quiet)
      /\ trackings[r] = quiet[r]
      /\ IsOpen(trackings[r])

\* C23 witness: a chain close and a rescan close dated too early have both
\* been refused
C23_Witness ==
  /\ \E p \in Procs : \E r \in DOMAIN quiet :
       /\ EarlyCase(p, r)
       /\ quiet[r].puesto_id = Data(p).puesto_id
       /\ Result(p) = StorageError
  /\ \E k \in DOMAIN log : \E r \in DOMAIN trackings :
       /\ log[k].result = StorageError
       /\ WindowOf(log[k].data) = WindowOf(trackings[r])
       /\ log[k].data.puesto_id # trackings[r].puesto_id
       /\ log[k].data.fecha_inicio < trackings[r].fecha_inicio

\* p's call has run alone and has ended in an error
Failed(p) ==
  /\ Alone(p)
  /\ Result(p) \in {ConflictError, ConcurrencyConflictError, StorageError}

\* C24, all or nothing: when a call ends in any error, every row is as the call
\* found it (no close the call made persists), so the call's window still has
\* an open interval if it had one before the call.
C24_FailedCallChangesNothing ==
  \A p \in Procs :
    Failed(p) =>
      /\ \A i \in DOMAIN quiet : trackings[i] = quiet[i]
      /\ OpenOf(quiet, WindowOf(Data(p))) # {}
           => OpenOf(trackings, WindowOf(Data(p))) # {}

\* C25, point lookup: getTracking(id) returns the stored row whose id is id
\* when there is one and null when there is none, and never changes the table.
C25_GetTracking ==
  [][ ( /\ last'.n # last.n
        /\ last'.op = "getTracking" )
      => LET hits == { i \in DOMAIN trackings : trackings[i].id = last'.id } IN
           /\ trackings' = trackings
           /\ hits # {} => \E i \in hits : last'.row = <<trackings[i]>>
           /\ hits = {} => last'.row = NullRow ]_vars

\* C25 witness: getTracking has returned the second row of a table of three,
\* a closed one
C25_Witness ==
  /\ last.op = "getTracking"
  /\ last.id = 2
  /\ Len(trackings) = 3
  /\ last.row = <<trackings[2]>>
  /\ ~IsOpen(trackings[2])

\* the half-open ranges [fecha_inicio, fecha_final or ts) of two rows have an
\* instant in common
Intersect(row1, row2, ts) ==
  LET from == IF row1.fecha_inicio >= row2.fecha_inicio
                THEN row1.fecha_inicio ELSE row2.fecha_inicio
      to == IF FinalOrNow(row1, ts) <= FinalOrNow(row2, ts)
              THEN FinalOrNow(row1, ts) ELSE FinalOrNow(row2, ts)
  IN from < to

\* the unordered pairs of distinct rows of one workstation whose ranges intersect
IntersectingPairs(store, ts) ==
  { {i, j} : i, j \in DOMAIN store } \cap
  { pair \in SUBSET (DOMAIN store) :
      \E i, j \in pair :
        /\ pair = {i, j}
        /\ i # j
        /\ store[i].puesto_id = store[j].puesto_id
        /\ Intersect(store[i], store[j], ts) }

\* C26, overlap detection: findOverlaps returns exactly the unordered pairs of
\* distinct rows that share a workstation and whose half-open ranges
\* [fecha_inicio, fecha_final or now) intersect, each pair once, never a pair
\* whose ranges do not intersect (a zero-length row intersects nothing), and
\* it does not change the table.
C26_ExactlyIntersectingPairs ==
  [][ ( /\ last'.n # last.n
        /\ last'.op = "findOverlaps" )
      => /\ trackings' = trackings
         /\ { {pr[1], pr[2]} : pr \in last'.pairs }
              = IntersectingPairs(trackings, last'.ts)
         /\ \A pr \in last'.pairs :
              pr[1] # pr[2] /\ <<pr[2], pr[1]>> \notin last'.pairs ]_vars

\* p's call repeats the call issued right before it, which was rejected with
\* ConflictError; since then closeTracking has closed row a, a row of another
\* window at the call's workstation, and the workstation has no open row left.
UnblockedRetry(p, a) ==
  /\ Alone(p)
  /\ calls[p].slot - 1 \in DOMAIN log
  /\ log[calls[p].slot - 1].data = Data(p)
  /\ log[calls[p].slot - 1].result = ConflictError
  /\ last.op = "closeTracking"
  /\ last.result = OK
  /\ last.id = a
  /\ a \in DOMAIN quiet
  /\ quiet[a].puesto_id = Data(p).puesto_id
  /\ WindowOf(quiet[a]) # WindowOf(Data(p))
  /\ quiet[a].closure_reason \in {MANUAL_CLOSE, AUTO_CLOSED_ORPHANED}
  /\ OpenAt(quiet, Data(p).puesto_id) = {}

\* the retried call has succeeded and has opened its window at its workstation
Unblocked(p) ==
  /\ Result(p) = OK
  /\ Len(trackings) = Len(quiet) + 1
  /\ trackings[Len(trackings)] = OpenedBy(Data(p), Len(trackings))

\* C27 as stated: while window A's interval at workstation P stays open, every
\* createTracking(B, P, t) for another window B fails with ConflictError and
\* leaves A's interval open; once closeTracking has closed A's interval, the
\* same createTracking(B, P, t) succeeds and opens B at P.
C27_ConflictUntilManualClose ==
  /\ \A p \in Procs : \A a \in DOMAIN quiet :
       OccupiedByOther(p, a) =>
         Result(p) = ConflictError /\ trackings[a] = quiet[a]
  /\ \A p \in Procs : \A a \in DOMAIN quiet :
       UnblockedRetry(p, a) => Unblocked(p)

\* C27 as amended: while A's interval at P stays open, every
\* createTracking(B, P, t) fails and leaves A's interval open, with
\* ConflictError unless B has an open interval at another workstation that
\* starts after t, and then with the storage error of the refused chain close;
\* once closeTracking has closed A's interval, the createTracking(B, P, t) that
\* was rejected with ConflictError succeeds when repeated and opens B at P.
C27_BlockedUntilManualClose ==
  /\ \A p \in Procs : \A a \in DOMAIN quiet :
       OccupiedByOther(p, a) =>
         /\ Result(p) = IF ChainClosable(p) THEN ConflictError ELSE StorageError
         /\ trackings[a] = quiet[a]
  /\ \A p \in Procs : \A a \in DOMAIN quiet :
       UnblockedRetry(p, a) => Unblocked(p)

\* C27 witness: a call rejected with ConflictError has succeeded when repeated
\* after a closeTracking call with the default reason
C27_Witness ==
  \E p \in Procs : \E a \in DOMAIN quiet :
    /\ UnblockedRetry(p, a)
    /\ Unblocked(p)
    /\ last.reason = Undefined
    /\ quiet[a].closure_reason = MANUAL_CLOSE

\* C28, termination without waiting: provided every statement completes, every
\* call ends, with a returned row or with an error, whatever other calls are
\* in flight; and a call in flight never waits for another call or for a
\* lock: its next step can always be taken.
C28_EveryCallEnds ==
  /\ \A p \in Procs :
       InFlight(p) ~>
         ( /\ calls[p].pc = "done"
           /\ Result(p) \in {OK, ConflictError, ConcurrencyConflictError,
                              StorageError}
           /\ Result(p) = OK <=> log[calls[p].slot].returned # 0 )
  /\ [](\A p \in Procs : InFlight(p) => ENABLED Step(p))

\* C28 witness: a call has ended after racing another call at its workstation,
\* and that other call is still in flight
C28_Witness ==
  \E p, q \in Procs :
    /\ calls[p].pc = "done"
    /\ calls[p].raced
    /\ InFlight(q)
    /\ Data(q).puesto_id = Data(p).puesto_id

\* p's call takes its step 2 decision at a workstation with two open rows or more
DecidesAmongMany(p) ==
  /\ calls[p].pc = "same_select"
  /\ calls'[p].pc # "same_select"
  /\ Cardinality(OpenAt(trackings, Data(p).puesto_id)) > 1

ClosesExisting ==
  /\ last'.n # last.n
  /\ last'.op = "closeTracking"
  /\ last'.id \in DOMAIN trackings

\* the table after closeTracking(id, fechaFinal, reason) has done what C30
\* says: row id has that fecha_final and that reason, or MANUAL_CLOSE when no
\* reason was given, every other field of it and every other row is unchanged
ClosedExactly(before, after, id, fechaFinal, reason) ==
  /\ DOMAIN after = DOMAIN before
  /\ after[id] = ClosedAs(before[id], fechaFinal,
                          IF reason = Undefined THEN MANUAL_CLOSE ELSE reason)
  /\ \A i \in DOMAIN before \ {id} : after[i] = before[i]

\* C30 as stated: closeTracking(id, fechaFinal, reason) on an existing row
\* sets that row's fecha_final and closure_reason (MANUAL_CLOSE when no reason
\* is given), leaves its puesto_id, window and fecha_inicio and every other
\* row unchanged, and looks at nothing else: open or closed, the row is closed.
C30_ClosesExactlyThatRow ==
  [][ ClosesExisting =>
        /\ last'.result = OK
        /\ ClosedExactly(trackings, trackings', last'.id, last'.fechaFinal,
                         last'.reason) ]_vars

\* C30 as amended: the same, unless fechaFinal is earlier than the row's
\* fecha_inicio: then the CHECK refuses the UPDATE, the call fails with the
\* storage error and the table is unchanged.
C30_ClosesExactlyThatRowOrRefused ==
  [][ ClosesExisting =>
        IF last'.fechaFinal >= trackings[last'.id].fecha_inicio
          THEN /\ last'.result = OK
               /\ ClosedExactly(trackings, trackings', last'.id,
                                last'.fechaFinal, last'.reason)
          ELSE /\ last'.result = StorageError
               /\ trackings' = trackings ]_vars

\* C30 witness: closeTracking, called without a reason, has just closed the
\* first row of a table that holds another, open, row at the same workstation
C30_Witness ==
  /\ last.op = "closeTracking"
  /\ last.result = OK
  /\ last.reason = Undefined
  /\ burst = 0
  /\ last.id = 1
  /\ last.id \in DOMAIN trackings
  /\ trackings[last.id].fecha_final = last.fechaFinal
  /\ trackings[last.id].closure_reason = MANUAL_CLOSE
  /\ \E i \in DOMAIN trackings :
       /\ IsOpen(trackings[i])
       /\ trackings[i].puesto_id = trackings[last.id].puesto_id

\* the id, workstation, window and fecha_inicio of a row
IdentityOf(row) ==
  [id |-> row.id, puesto_id |-> row.puesto_id, lote |-> row.lote,
   instancia |-> row.instancia, version |-> row.version,
   fecha_inicio |-> row.fecha_inicio]

\* C31, the identity of an interval is immutable: no step of createTracking,
\* no closeTracking call and no run of migration 002 removes a row or changes
\* the id, the puesto_id, the lote, instancia and version or the fecha_inicio
\* of a row the table holds.
C31_IdentityImmutable ==
  [][ \A i \in DOMAIN trackings :
        /\ i \in DOMAIN trackings'
        /\ IdentityOf(trackings'[i]) = IdentityOf(trackings[i]) ]_vars

\* C31 witness: a row closed by closeTracking and a row reclaimed by migration
\* 002 both still carry the id and the data of the calls that inserted them
C31_Witness ==
  \E k, m \in DOMAIN log :
    /\ log[k].result = OK /\ log[m].result = OK
    /\ trackings[log[k].returned].closure_reason = MANUAL_CLOSE
    /\ trackings[log[m].returned].closure_reason = AUTO_CLOSED_ORPHANED
    /\ IdentityOf(trackings[log[k].returned])
         = [id |-> log[k].returned] @@ log[k].data
    /\ IdentityOf(trackings[log[m].returned])
         = [id |-> log[m].returned] @@ log[m].data

\* migration 002 is being run
Reclaims ==
  /\ last'.n # last.n
  /\ last'.op = "close_orphaned_trackings"

EndsFrom(p, pcs) == calls[p].pc \in pcs /\ calls'[p].pc = "done"

\* C33, no error is converted except the unique violation: a call that ends
\* at step 2's decision ends with ConflictError, not with the
\* concurrency-conflict error; a call whose close is refused by the CHECK ends
\* with that storage error; only a call whose INSERT breaks the unique index
\* ends with the concurrency-conflict error; and no call that ends in an error
\* returns a row.
C33_ErrorsReachCallerUnchanged ==
  [][ \A p \in Procs :
        /\ EndsFrom(p, {"same_select"}) =>
             log'[calls[p].slot].result = ConflictError
        /\ EndsFrom(p, {"chain_close", "same_close"}) =>
             /\ Data(p).fecha_inicio < trackings[calls[p].found].fecha_inicio
             /\ log'[calls[p].slot].result = StorageError
        /\ ( /\ EndsFrom(p, {"chain_select", "chain_close", "same_select",
                             "same_close", "insert"})
             /\ log'[calls[p].slot].result = ConcurrencyConflictError ) =>
             /\ calls[p].pc = "insert"
             /\ \E i \in OpenAt(trackings, Data(p).puesto_id) :
                  WindowOf(trackings[i]) = WindowOf(Data(p))
        /\ ( /\ EndsFrom(p, {"chain_select", "chain_close", "same_select",
                             "same_close", "insert"})
             /\ log'[calls[p].slot].result # OK ) =>
             /\ log'[calls[p].slot].result \in
                  {ConflictError, StorageError, ConcurrencyConflictError}
             /\ log'[calls[p].slot].returned = 0
             /\ Len(trackings') = Len(trackings) ]_vars

\* C33 witness: one call has ended with ConflictError while another call was
\* in flight, and one with the storage error of a refused close
C33_Witness ==
  \E k, m \in DOMAIN log :
    /\ log[k].result = ConflictError
    /\ log[k].returned = 0
    /\ log[m].result = StorageError
    /\ log[m].returned = 0
    /\ burst >= 2

\* C34, no lost race without a race: when one caller issues its calls one
\* after another from an empty table, no call ends with the
\* concurrency-conflict error: a call that stands before its INSERT finds no
\* open row of its window at its workstation, so the INSERT cannot break the
\* unique index.
C34_SerialNeverConstraintViolation ==
  /\ \A k \in DOMAIN log : log[k].result # ConcurrencyConflictError
  /\ \A p \in Procs :
       calls[p].pc = "insert" =>
         ~\E i \in DOMAIN trackings :
            /\ trackings[i].fecha_final = NULL
            /\ trackings[i].puesto_id = Data(p).puesto_id
            /\ WindowOf(trackings[i]) = WindowOf(Data(p))

\* C34 witness: a call stands before its INSERT right after it has closed the
\* open row of its own window at its own workstation, on a table of three rows
C34_Witness ==
  \E p \in Procs :
    /\ calls[p].pc = "insert"
    /\ calls[p].closes = 1
    /\ Len(trackings) = 3
    /\ \E i \in DOMAIN trackings :
         /\ trackings[i].puesto_id = Data(p).puesto_id
         /\ WindowOf(trackings[i]) = WindowOf(Data(p))
         /\ trackings[i].closure_reason = RESCANNED_SAME_WINDOW
         /\ trackings[i].fecha_final = Data(p).fecha_inicio

\* the calls issued so far carry non-decreasing fecha_inicio values
Monotone ==
  \A i, j \in DOMAIN log :
    i < j => log[i].data.fecha_inicio <= log[j].data.fecha_inicio

\* C35, serial scans in time order: when one caller issues its calls one after
\* another from an empty table with non-decreasing fecha_inicio, every state
\* has at most one open row per workstation (I1) and per window (I2) and
\* findOverlaps returns no pair at whatever time it is run (I5); and after each
\* successful createTracking(W, P, t) the only open row of W is the row the
\* call has inserted, at P.
C35_SerialMonotoneInvariants ==
  Monotone =>
    /\ \A puestoId \in Puestos :
         Cardinality({ i \in DOMAIN trackings :
                         /\ trackings[i].puesto_id = puestoId
                         /\ trackings[i].fecha_final = NULL }) <= 1
    /\ \A w \in Windows :
         Cardinality({ i \in DOMAIN trackings :
                         /\ WindowOf(trackings[i]) = w
                         /\ trackings[i].fecha_final = NULL }) <= 1
    /\ \A ts \in Timestamps : findOverlaps(trackings, ts) = {}
    /\ \A p \in Procs :
         (Alone(p) /\ Result(p) = OK) =>
           /\ OpenOf(trackings, WindowOf(Data(p))) = {log[calls[p].slot].returned}
           /\ trackings[log[calls[p].slot].returned].puesto_id = Data(p).puesto_id

\* C35 witness: four calls in time order have run, the last one has succeeded
\* after closing a row, two calls carry the same fecha_inicio, and a call in
\* between was rejected
C35_Witness ==
  /\ Monotone
  /\ Len(log) = 4
  /\ \E p \in Procs :
       /\ Alone(p)
       /\ Result(p) = OK
       /\ calls[p].closes = 1
  /\ \E k \in DOMAIN log : log[k].result = ConflictError
  /\ \E i, j \in DOMAIN log :
       i # j /\ log[i].data.fecha_inicio = log[j].data.fecha_inicio
  /\ log[1].data.fecha_inicio < log[4].data.fecha_inicio

\* the calls that have succeeded, as the log l records them
Succeeded(l) == { k \in DOMAIN l : l[k].result = OK }

\* C36, rows are added one per successful call and never removed: a step adds
\* a row exactly when a createTracking call succeeds at it, and then one row;
\* a call that ends in an error adds none; no step of createTracking,
\* closeTracking, getTracking or findOverlaps removes a row; and no two rows
\* have the same id.
C36_OneRowPerSuccess ==
  [][ /\ \A i \in DOMAIN trackings : i \in DOMAIN trackings'
      /\ Len(trackings') - Len(trackings)
           = Cardinality(Succeeded(log')) - Cardinality(Succeeded(log))
      /\ Cardinality(Succeeded(log')) - Cardinality(Succeeded(log)) \in {0, 1}
      /\ \A p \in Procs :
           ( /\ calls[p].pc \notin {"idle", "done"}
             /\ calls'[p].pc = "done"
             /\ log'[calls[p].slot].result # OK ) =>
             Len(trackings') = Len(trackings)
      /\ \A i, j \in DOMAIN trackings' :
           trackings'[i].id = trackings'[j].id => i = j ]_vars

\* C36 witness: of three calls two have succeeded and one has failed, the
\* table holds two rows, one of them closed by closeTracking, and a read-only
\* statement has just run
C36_Witness ==
  /\ Len(log) = 3
  /\ Cardinality(Succeeded(log)) = 2
  /\ \E k \in DOMAIN log : log[k].result \in {ConflictError, StorageError}
  /\ Len(trackings) = 2
  /\ trackings[1].id # trackings[2].id
  /\ \E i \in DOMAIN trackings : trackings[i].closure_reason = MANUAL_CLOSE
  /\ last.op \in {"getTracking", "findOverlaps"}
  /\ burst = 0

\* the open rows of the window of p's call at workstations other than the
\* call's, in the table as the call found it
OpenElsewhere(p) ==
  { i \in OpenOf(quiet, WindowOf(Data(p))) :
      quiet[i].puesto_id # Data(p).puesto_id }

\* p's call has run alone and has succeeded, on a table where its window was
\* open at two workstations or more other than the call's
ManyElsewhere(p) ==
  /\ Alone(p)
  /\ Result(p) = OK
  /\ Cardinality({ quiet[i].puesto_id : i \in OpenElsewhere(p) }) >= 2

\* C37, the chain step closes one row only: when the window of a call is open
\* at two workstations or more other than the target, a call that succeeds
\* has closed, with CHAIN_TRANSITION at its fecha_inicio, one of those rows, one
\* of the latest fecha_inicio, and has left the others open and as they were;
\* the window has more than one open row after the call.
C37_ChainClosesLatestOnly ==
  \A p \in Procs :
    ManyElsewhere(p) =>
      /\ \E r \in OpenElsewhere(p) :
           /\ \A i \in OpenElsewhere(p) :
                quiet[i].fecha_inicio <= quiet[r].fecha_inicio
           /\ trackings[r] = ClosedAs(quiet[r], Data(p).fecha_inicio,
                                      CHAIN_TRANSITION)
           /\ \A i \in OpenElsewhere(p) \ {r} : trackings[i] = quiet[i]
      /\ Cardinality(OpenOf(trackings, WindowOf(Data(p)))) > 1

\* C37 witness: a call has succeeded on a table where its window was open at
\* two other workstations from different times, and its window is now open at
\* two workstations
C37_Witness ==
  \E p \in Procs :
    /\ ManyElsewhere(p)
    /\ \E i, j \in OpenElsewhere(p) :
         quiet[i].fecha_inicio < quiet[j].fecha_inicio
    /\ Cardinality(OpenOf(trackings, WindowOf(Data(p)))) = 2

\* I1 to I5 of a table, I5 for the ranges [fecha_inicio, fecha_final or now)
I1(store) ==
  \A i, j \in DOMAIN store :
    ( /\ store[i].fecha_final = NULL /\ store[j].fecha_final = NULL
      /\ store[i].puesto_id = store[j].puesto_id ) => i = j

I2(store) ==
  \A i, j \in DOMAIN store :
    ( /\ store[i].fecha_final = NULL /\ store[j].fecha_final = NULL
      /\ WindowOf(store[i]) = WindowOf(store[j]) ) => i = j

I3(store) ==
  \A i \in DOMAIN store :
    store[i].fecha_final # NULL => store[i].fecha_inicio <= store[i].fecha_final

I4(store) ==
  \A i \in DOMAIN store :
    store[i].fecha_final # NULL <=> store[i].closure_reason # NoReason

I5(store, now) == IntersectingPairs(store, now) = {}

\* C38, orphan reclamation preserves the invariants: when migration 002 is run
\* at time now on a table that satisfies I1 to I5, every row it closes gets
\* fecha_inicio <= fecha_final < now, and the table it leaves satisfies I1, I3,
\* I4 and I5.
C38_ReclaimPreservesInvariants ==
  [][ ( /\ Reclaims
        /\ I1(trackings) /\ I2(trackings) /\ I3(trackings) /\ I4(trackings)
        /\ I5(trackings, last'.ts) )
      => /\ \A i \in DOMAIN trackings :
              trackings'[i] # trackings[i] =>
                /\ trackings'[i].fecha_final # NULL
                /\ trackings'[i].fecha_inicio <= trackings'[i].fecha_final
                /\ trackings'[i].fecha_final < last'.ts
         /\ I1(trackings') /\ I3(trackings') /\ I4(trackings')
         /\ I5(trackings', last'.ts) ]_vars

\* the table with the rows migration 002 has closed open again
Unreclaimed ==
  [i \in DOMAIN trackings |->
     IF trackings[i].closure_reason = AUTO_CLOSED_ORPHANED
       THEN [trackings[i] EXCEPT !.fecha_final = NULL, !.closure_reason = NoReason]
       ELSE trackings[i]]

\* C38 witness: the one statement run so far is a run of migration 002, on a
\* table that satisfied I1 to I5; it has closed two rows, one of them at a
\* workstation that holds an earlier, closed row
C38_Witness ==
  /\ last.op = "close_orphaned_trackings"
  /\ last.n = 1
  /\ burst = 0
  /\ I1(Unreclaimed) /\ I2(Unreclaimed) /\ I3(Unreclaimed) /\ I4(Unreclaimed)
  /\ I5(Unreclaimed, last.ts)
  /\ \E i, j, k \in DOMAIN trackings :
       /\ i # k
       /\ trackings[i].closure_reason = AUTO_CLOSED_ORPHANED
       /\ trackings[k].closure_reason = AUTO_CLOSED_ORPHANED
       /\ trackings[j].closure_reason = CHAIN_TRANSITION
       /\ trackings[j].puesto_id = trackings[i].puesto_id

\* The last two calls issued are the whole burst and have both ended; they
\* carry the same window and the same workstation, and when the burst began
\* the workstation had no open row of another window.
ConcurrentPair ==
  /\ burst = 2
  /\ Quiescent
  /\ WindowOf(log[Len(log) - 1].data) = WindowOf(log[Len(log)].data)
  /\ log[Len(log) - 1].data.puesto_id = log[Len(log)].data.puesto_id
  /\ \A i \in OpenAt(quiet, log[Len(log)].data.puesto_id) :
       WindowOf(quiet[i]) = WindowOf(log[Len(log)].data)

PairResults == { log[Len(log) - 1].result, log[Len(log)].result }

\* one of the two calls carries a fecha_inicio that is not before the
\* fecha_inicio of any open row of their window
PairClosable ==
  \E k \in {Len(log) - 1, Len(log)} :
    \A i \in OpenOf(quiet, WindowOf(log[k].data)) :
      quiet[i].fecha_inicio <= log[k].data.fecha_inicio

\* C39 as stated: of the calls issued concurrently for one window at one
\* workstation that no other window occupies, at least one succeeds, whatever
\* the interleaving.
C39_AtLeastOneOfPairSucceeds ==
  ConcurrentPair => OK \in PairResults

\* C39 as amended: the calls never all fail with the concurrency-conflict
\* error; and at least one succeeds provided one of them carries a fecha_inicio
\* that is not before the fecha_inicio of any open row of the window (when all
\* are dated before such a row, each may fail with the storage error of its
\* refused close).
C39_NotAllLoseTheRace ==
  ConcurrentPair =>
    /\ PairResults # {ConcurrencyConflictError}
    /\ PairClosable => OK \in PairResults

\* C39 witness: two concurrent calls for the window that is open at their
\* workstation, with different fecha_inicio, have ended one OK and one with
\* the concurrency-conflict error
C39_Witness ==
  /\ ConcurrentPair
  /\ PairClosable
  /\ PairResults = {OK, ConcurrencyConflictError}
  /\ OpenAt(quiet, log[Len(log)].data.puesto_id) # {}
  /\ log[Len(log) - 1].data.fecha_inicio # log[Len(log)].data.fecha_inicio

\* p's call has run alone and repeats, with the same window, workstation and
\* fecha_inicio, the call issued right before it, which succeeded with row r
SameInstantRescan(p, r) ==
  /\ Alone(p)
  /\ calls[p].slot - 1 \in DOMAIN log
  /\ log[calls[p].slot - 1].data = Data(p)
  /\ log[calls[p].slot - 1].result = OK
  /\ log[calls[p].slot - 1].returned = r

\* C40, rescan at the same instant: createTracking(W, P, t) followed serially
\* by createTracking(W, P, t) succeeds both times; the first row is left closed
\* with fecha_final = fecha_inicio = t and RESCANNED_SAME_WINDOW, the second row
\* is open from t; and findOverlaps, at whatever time it is run, does not
\* return that pair.
C40_SameInstantRescan ==
  \A p \in Procs : \A r \in DOMAIN quiet :
    SameInstantRescan(p, r) =>
      /\ Result(p) = OK
      /\ log[calls[p].slot].returned = Len(quiet) + 1
      /\ Len(trackings) = Len(quiet) + 1
      /\ trackings[r].fecha_inicio = Data(p).fecha_inicio
      /\ trackings[r].fecha_final = Data(p).fecha_inicio
      /\ trackings[r].closure_reason = RESCANNED_SAME_WINDOW
      /\ trackings[Len(trackings)] = OpenedBy(Data(p), Len(trackings))
      /\ \A ts \in Timestamps :
           /\ <<r, Len(trackings)>> \notin findOverlaps(trackings, ts)
           /\ <<Len(trackings), r>> \notin findOverlaps(trackings, ts)

\* C40 witness: a call has succeeded and has been repeated as it was, at a
\* fecha_inicio later than that of an earlier row of the workstation
C40_Witness ==
  \E p \in Procs : \E r \in DOMAIN quiet :
    /\ SameInstantRescan(p, r)
    /\ Result(p) = OK
    /\ \E i \in DOMAIN quiet :
         /\ quiet[i].puesto_id = Data(p).puesto_id
         /\ quiet[i].fecha_inicio < Data(p).fecha_inicio

====
